---- MODULE Spec2Model ----
(***************************************************************************)
(* The Slack bot factory (Slack_bot_dynamic): BotFactory, its registry of  *)
(* BotInstance objects, the worker thread each start() spawns, and the     *)
(* BotStorage mapping with its JSON file.  The control plane is Flask with *)
(* threaded=True, so Manager calls run in parallel request threads; every  *)
(* action below is one step of one thread between two accesses of shared   *)
(* state.                                                                  *)
(*                                                                         *)
(* A BotInstance is an index into objs, a run_bot thread an index into     *)
(* workers, and the SocketModeHandler a run_bot thread makes carries that  *)
(* thread's index (0 is None).  ret holds what the call that returned in   *)
(* the step just taken returned and logged, and is empty after any other   *)
(* step.  The factory starts empty, with no bots_config.json on disk.      *)
(*                                                                         *)
(* Spec is the control plane with create, start, stop and delete; SpecBulk *)
(* has start_all and stop_all as well; SpecEvents is one serving           *)
(* connection whose listener threads handle inbound events.  obs holds the *)
(* event and the gateway answer the listener step just taken received and  *)
(* the handling that ended in it, and is overwritten by the next step.     *)
(***************************************************************************)
EXTENDS Integers, Sequences, FiniteSets, TLC

\* ------------------------------------------------------------- bounds
\* Manager calls made in one run, over all request threads.
MaxCalls == 3
\* Inbound events delivered in one run, over all listener threads.
MaxEvents == 2
\* Requests served in one run of the control plane with POST /bots.
MaxRequests == 2

Ids == {"c1", "c2"}
Threads == {"t1", "t2"}
\* The threads in which slack_bolt runs the listeners of one App.
Listeners == {"l1", "l2"}

\* ------------------------------------------------------------- values
CfgA ==
    [bot_token |-> "xoxb-A", app_token |-> "xapp-A", signing_secret |-> "sec-A",
     agent_url |-> "http://a", channel_id |-> "CH1"]
CfgB ==
    [bot_token |-> "xoxb-B", app_token |-> "xapp-B", signing_secret |-> "sec-B",
     agent_url |-> "http://b", channel_id |-> "None"]
\* The config each request thread's client submits ("None" is Python's None).
CfgOf(t) == IF t = "t1" THEN CfgA ELSE CfgB
NoCfg ==
    [bot_token |-> "", app_token |-> "", signing_secret |-> "",
     agent_url |-> "", channel_id |-> ""]

\* BotFactory(persist=True), as api_service and main construct it.
persist == TRUE

EmptyMap == [i \in {} |-> NoCfg]
Put(f, k, v) == [x \in (DOMAIN f) \cup {k} |-> IF x = k THEN v ELSE f[x]]
Del(f, k) == [x \in (DOMAIN f) \ {k} |-> f[x]]

VARIABLES
    bots,      \* BotFactory.bots: bot_id -> index of a BotInstance in objs
    objs,      \* every BotInstance constructed so far
    workers,   \* every run_bot thread spawned so far
    configs,   \* BotStorage.configs: bot_id -> config record
    file,      \* the bots_config.json file
    call,      \* per request thread: the Manager call in progress
    ret,       \* what the call that returned in the last step returned and logged
    ncalls,    \* Manager calls made so far
    listener,  \* per listener thread: the inbound event it is handling
    obs,       \* what the listener step just taken received and ended with
    nev        \* inbound events delivered so far

vars ==
    <<bots, objs, workers, configs, file, call, ret, ncalls, listener, obs,
      nev>>

\* The state of event handling, which no Manager call or run_bot step reads
\* or writes.
evars == <<listener, obs, nev>>

\* The registry and the Store mapping as a POST /bots request found them (none
\* taken by the calls made on the Manager directly).
NoSnap == [taken |-> FALSE, bots |-> <<>>, configs |-> <<>>]

Idle ==
    [op |-> "idle", pc |-> "-", id |-> "", cfg |-> NoCfg, obj |-> 0,
     auto |-> FALSE, logged |-> {}, size |-> -1, seen |-> {}, failed |-> {},
     auto_start |-> FALSE, before |-> NoSnap]
NoRet == [t |-> "", op |-> "none", id |-> "", res |-> "-", logged |-> {}]

\* A new BotInstance: not running, no app, no handler.
BotInstance(bot_id, cfg) ==
    [bot_id |-> bot_id, cfg |-> cfg, app |-> FALSE, handler |-> 0,
     running |-> FALSE, bot_user_id |-> "None"]

NoFile == [state |-> "absent", data |-> EmptyMap]

\* ------------------------------------------------------- inbound events
\* A text is a sequence of tokens: a user mention <@U..>, a blank, a word.
Tok(k, v) == [k |-> k, v |-> v]
MentionTok(user_id) == Tok("at", user_id)
Sp == Tok("sp", " ")
Word == Tok("w", "hi")

\* The user id auth.test reports for the bot, and another user's.
BotUser == "U1"
OtherUser == "U2"

Texts ==
    {<<MentionTok(BotUser)>>,
     <<Sp, MentionTok(BotUser), Sp, MentionTok(BotUser)>>,
     <<MentionTok(BotUser), Sp, Word>>, <<Word>>, <<MentionTok(OtherUser)>>}

AllEvents ==
    [type : {"app_mention", "message"}, subtype : BOOLEAN, bot_id : BOOLEAN,
     channel_type : {"im", "channel"}, channel : {"CH1", "CH2", "D1"},
     text : Texts, thread_ts : {"None", "T1"}, ts : {"T0"}]

\* The events fed to a connection: a direct message arrives in the DM
\* channel D1, the events flagged with a subtype or a bot_id are one word, and
\* the events inside a thread hold a word.
Events ==
    {e \in AllEvents :
        /\ (e.channel_type = "im") = (e.channel = "D1")
        /\ (e.subtype \/ e.bot_id) => e.text = <<Word>>
        /\ e.thread_ts # "None" => (e.text[Len(e.text)] = Word
                                      /\ ~(e.subtype \/ e.bot_id))}

NoEvent ==
    [type |-> "none", subtype |-> FALSE, bot_id |-> FALSE,
     channel_type |-> "", channel |-> "", text |-> <<>>,
     thread_ts |-> "None", ts |-> ""]

\* What the agent endpoint answers: no answer in 30 s, a non-2xx status, a
\* body that is not JSON, or a JSON object in which each of the keys
\* response, message and text is absent or a text (response may be "").
Bodies ==
    [response : {"absent", "", "R"}, message : {"absent", "M"},
     text : {"absent", "T"}]
NoBody == [response |-> "absent", message |-> "absent", text |-> "absent"]
Answers ==
    {[kind |-> k, body |-> NoBody] : k \in {"timeout", "status", "malformed"}}
        \cup {[kind |-> "body", body |-> b] : b \in Bodies}
NoAnswer == [kind |-> "none", body |-> NoBody]

Apology == "Sorry, I encountered an error processing your request."

\* The locals of one _handle_message call, the say() calls it has made
\* (says), the _call_agent calls (gw) and the errors it has logged.
\* after_error: the event this thread handled before ended in an exception.
LIdle ==
    [pc |-> "idle", obj |-> 0, mention |-> FALSE, text |-> <<>>,
     thread_ts |-> "None", resp |-> "", gw |-> 0, says |-> <<>>, log |-> {},
     after_error |-> FALSE]
NoOut == [LIdle EXCEPT !.pc = "-"]
NoObs == [h |-> "", ev |-> NoEvent, answer |-> NoAnswer, out |-> NoOut]

InitEvents ==
    /\ listener = [h \in Listeners |-> LIdle]
    /\ obs = NoObs
    /\ nev = 0

Init ==
    /\ InitEvents
    /\ bots = [i \in {} |-> 0]
    /\ objs = <<>>
    /\ workers = <<>>
    /\ configs = EmptyMap
    /\ file = NoFile
    /\ call = [t \in Threads |-> Idle]
    /\ ret = NoRet
    /\ ncalls = 0

At(t, op, pc) == call[t].op = op /\ call[t].pc = pc

\* The thread goes on to pc holding the BotInstance obj and the config cfg
\* (a local it reads no more is dropped).
Jump(t, pc, obj, cfg) ==
    /\ call' = [call EXCEPT ![t].pc = pc, ![t].obj = obj, ![t].cfg = cfg,
                            ![t].auto = FALSE]
    /\ ret' = NoRet

Goto(t, pc) == Jump(t, pc, call[t].obj, call[t].cfg)

\* The call on id returns (res = "ok") or raises res, having logged logs:
\* to the client; or, create_bot returning the id to the POST /bots route of a
\* request with auto_start (api_service.py lines 61-62), into that route,
\* which enters start_bot(bot_id).
ReturnAs(t, id, res, logs) ==
    IF call[t].auto_start /\ res = "ok"
    THEN /\ call' = [call EXCEPT
                ![t].op = "start", ![t].pc = "s_chk", ![t].id = id,
                ![t].obj = 0, ![t].cfg = NoCfg, ![t].auto = FALSE,
                ![t].auto_start = FALSE,
                ![t].logged = call[t].logged \cup logs]
         /\ ret' = NoRet
    ELSE /\ call' = [call EXCEPT ![t] = Idle]
         /\ ret' = [t |-> t, op |-> call[t].op, id |-> id, res |-> res,
                    logged |-> call[t].logged \cup logs]

Return(t, res, logs) == ReturnAs(t, call[t].id, res, logs)

Bulk == {"start_all", "stop_all"}

\* start_all / stop_all whose loop has no try: the exception of one id's
\* start_bot or stop_bot leaves the method.
Leave_Abort(t, res, logs) == Return(t, res, logs)

\* start_bot / stop_bot is left with res.  Called by a client, that is the
\* end of the call.  Called by start_all / stop_all (lines 268-272, 276-280),
\* an exception is caught and logged with the id, and the loop goes on.
Leave(t, res, logs) ==
    IF call[t].op \in Bulk
    THEN /\ call' = [call EXCEPT
                ![t].pc = "a_next", ![t].id = "", ![t].obj = 0,
                ![t].cfg = NoCfg,
                ![t].logged = call[t].logged \cup logs,
                ![t].failed = IF res = "ok" THEN call[t].failed
                              ELSE call[t].failed \cup {call[t].id}]
         /\ ret' = NoRet
    ELSE Return(t, res, logs)

\* A request thread enters a Manager method.  An absent bot_id is "".
Invoke(t) ==
    /\ call[t].op = "idle"
    /\ ncalls < MaxCalls
    /\ ncalls' = ncalls + 1
    /\ \E op \in {"create", "start", "stop", "delete"} :
       \E id \in Ids \cup {""} :
          /\ op # "create" => id # ""
          /\ call' = [call EXCEPT ![t] =
                [op |-> op,
                 pc |-> CASE op = "create" -> "c_chk"
                          [] op = "start" -> "s_chk"
                          [] op = "stop" -> "p_chk"
                          [] OTHER -> "d_chk",
                 id |-> id,
                 cfg |-> IF op = "create" THEN CfgOf(t) ELSE NoCfg,
                 obj |-> 0, auto |-> (id = ""), logged |-> {},
                 size |-> -1, seen |-> {}, failed |-> {},
                 auto_start |-> FALSE, before |-> NoSnap]]
    /\ ret' = NoRet
    /\ UNCHANGED <<bots, objs, workers, configs, file>>
    /\ UNCHANGED evars

\* The fields POST /bots requires.
required_fields == {"bot_token", "app_token", "signing_secret", "agent_url"}

\* The JSON bodies a client posts: its config with some of the required
\* fields left out ("absent") or empty, a bot_id or none, and auto_start.
Bodies_Post(t) ==
    {[data |-> [f \in DOMAIN CfgOf(t) |->
                   IF f \in lost THEN how ELSE CfgOf(t)[f]],
      bot_id |-> id, auto_start |-> a] :
        lost \in SUBSET required_fields, how \in {"absent", ""},
        id \in Ids \cup {""}, a \in BOOLEAN}

\* [field for field in required_fields if not data.get(field)]
missing_fields(data) == {f \in required_fields : data[f] \in {"absent", ""}}

\* POST /bots (api_service.create_bot, lines 38-62): a body with a required
\* field missing is answered 400 at once; otherwise the request thread
\* enters BotFactory.create_bot with the body's fields, to go on to start_bot
\* when auto_start is set.
PostBots(t) ==
    /\ call[t].op = "idle"
    /\ ncalls < MaxCalls
    /\ ncalls' = ncalls + 1
    /\ \E body \in Bodies_Post(t) :
          IF missing_fields(body.data) # {}
          THEN /\ call' = call
               /\ ret' = [t |-> t, op |-> "create", id |-> "",
                          res |-> "ValidationError", logged |-> {}]
          ELSE /\ call' = [call EXCEPT ![t] =
                     [Idle EXCEPT
                         !.op = "create", !.pc = "c_chk",
                         !.id = body.bot_id, !.cfg = body.data,
                         !.auto = (body.bot_id = ""),
                         !.auto_start = body.auto_start,
                         !.before = [taken |-> TRUE, bots |-> bots,
                                     configs |-> configs]]]
               /\ ret' = NoRet
    /\ UNCHANGED <<bots, objs, workers, configs, file>>
    /\ UNCHANGED evars

\* ---------------------------------------------------------- BotStorage
\* logger.info("Created bot ...") / logger.info("Deleted bot ..."), the last
\* line of create_bot and of delete_bot's if block.
Info(t) == IF call[t].op = "create" THEN "created" ELSE "deleted"

\* _save: open(self.storage_file, 'w').  open() failing is caught and printed
\* by _save, which then returns normally; otherwise the file is truncated.
FileOpen(t) ==
    /\ call[t].pc = "f_open"
    /\ \/ /\ Return(t, "ok", {"save_error", Info(t)})
          /\ UNCHANGED file
       \/ /\ file' = [state |-> "empty", data |-> EmptyMap]
          /\ Goto(t, "f_dump")
    /\ UNCHANGED <<bots, objs, workers, configs, ncalls>>
    /\ UNCHANGED evars

\* What the file holds after this writer's content d lands at offset 0: all of
\* it, followed by whatever a longer content written by another writer since
\* this writer's truncation left behind.
Overlay(d) ==
    IF file.state = "ok" /\ Cardinality(DOMAIN file.data) > Cardinality(DOMAIN d)
    THEN {[state |-> "bad", data |-> EmptyMap]}
    ELSE IF file.state = "bad"
    THEN {[state |-> "bad", data |-> EmptyMap], [state |-> "ok", data |-> d]}
    ELSE {[state |-> "ok", data |-> d]}

\* _save: json.dump(self.configs, f) and the close of the with block.  A
\* failure leaves a partial file and is caught and printed by _save.
FileDump(t) ==
    /\ call[t].pc = "f_dump"
    /\ \/ /\ file' = [state |-> "bad", data |-> EmptyMap]
          /\ Return(t, "ok", {"save_error", Info(t)})
       \/ /\ file' \in Overlay(configs)
          /\ Return(t, "ok", {Info(t)})
    /\ UNCHANGED <<bots, objs, workers, configs, ncalls>>
    /\ UNCHANGED evars

\* save_bot that leaves the optional channel_id out of the record.
StorageSaveBot_NoChannel(t) ==
    /\ call[t].pc = "b_save"
    /\ configs' = Put(configs, call[t].id,
                      [call[t].cfg EXCEPT !.channel_id = "None"])
    /\ Jump(t, "f_open", 0, NoCfg)
    /\ UNCHANGED <<bots, objs, workers, file, ncalls>>
    /\ UNCHANGED evars

\* save_bot that rebuilds the mapping from the one record it is given.
StorageSaveBot_Rebuild(t) ==
    /\ call[t].pc = "b_save"
    /\ configs' = Put(EmptyMap, call[t].id, call[t].cfg)
    /\ Jump(t, "f_open", 0, NoCfg)
    /\ UNCHANGED <<bots, objs, workers, file, ncalls>>
    /\ UNCHANGED evars

\* save_bot: self.configs[bot_id] = {...}, then _save().
StorageSaveBot(t) ==
    /\ call[t].pc = "b_save"
    /\ configs' = Put(configs, call[t].id, call[t].cfg)
    /\ Jump(t, "f_open", 0, NoCfg)
    /\ UNCHANGED <<bots, objs, workers, file, ncalls>>
    /\ UNCHANGED evars

\* BotStorage.delete_bot: if bot_id in self.configs: del, then _save().
StorageDeleteBot(t) ==
    /\ call[t].pc = "d_cfg"
    /\ IF call[t].id \in DOMAIN configs
       THEN /\ configs' = Del(configs, call[t].id)
            /\ Goto(t, "f_open")
       ELSE /\ Return(t, "ok", {Info(t)})
            /\ UNCHANGED configs
    /\ UNCHANGED <<bots, objs, workers, file, ncalls>>
    /\ UNCHANGED evars

\* ---------------------------------------------------- BotFactory.create_bot
\* create_bot without its membership test.
IdTaken_Never(id) == FALSE

\* if bot_id in self.bots
IdTaken(id) == id \in DOMAIN bots

\* Lines 197-210: an absent bot_id is replaced by bot_<8 hex digits of a
\* uuid4> (any id, a registered one included); a registered id raises
\* ValueError; otherwise the BotInstance is constructed (the call still knows
\* whether its id was generated until it has registered it).
CreateCheck(t) ==
    /\ At(t, "create", "c_chk")
    /\ \E id \in (IF call[t].auto THEN Ids ELSE {call[t].id}) :
          IF IdTaken(id)
          THEN /\ ReturnAs(t, id, "AlreadyExists", {})
               /\ UNCHANGED objs
          ELSE /\ objs' = Append(objs, BotInstance(id, call[t].cfg))
               /\ call' = [call EXCEPT ![t].id = id,
                                       ![t].obj = Len(objs) + 1,
                                       ![t].pc = "c_reg"]
               /\ ret' = NoRet
    /\ UNCHANGED <<bots, workers, configs, file, ncalls>>
    /\ UNCHANGED evars

\* Line 212: self.bots[bot_id] = bot; line 215: if self.persist.
CreateRegister(t) ==
    /\ At(t, "create", "c_reg")
    /\ bots' = Put(bots, call[t].id, call[t].obj)
    /\ IF persist
       THEN Jump(t, "b_save", 0, call[t].cfg)
       ELSE Return(t, "ok", {Info(t)})
    /\ UNCHANGED <<objs, workers, configs, file, ncalls>>
    /\ UNCHANGED evars

\* ----------------------------------------------------- BotFactory.start_bot
\* if bot_id not in self.bots: raise ValueError
StartCheck(t) ==
    /\ call[t].pc = "s_chk"
    /\ IF call[t].id \in DOMAIN bots
       THEN Goto(t, "s_get")
       ELSE Leave(t, "NotFound", {})
    /\ UNCHANGED <<bots, objs, workers, configs, file, ncalls>>
    /\ UNCHANGED evars

\* self.bots[bot_id].start(): the lookup, then BotInstance.start's
\* if self.running: warning; return.
StartGet(t) ==
    /\ call[t].pc = "s_get"
    /\ IF call[t].id \notin DOMAIN bots
       THEN Leave(t, "KeyError", {})
       ELSE IF objs[bots[call[t].id]].running
       THEN Leave(t, "ok", {"already_running"})
       ELSE Jump(t, "s_app", bots[call[t].id], NoCfg)
    /\ UNCHANGED <<bots, objs, workers, configs, file, ncalls>>
    /\ UNCHANGED evars

\* BotInstance.start, the try block: App(...) and Thread(...).start() either
\* raise (running = False; raise) or leave a spawned run_bot thread, and
\* start returns True without waiting for it.
StartApp(t) ==
    /\ call[t].pc = "s_app"
    /\ \/ /\ objs' = [objs EXCEPT ![call[t].obj].running = FALSE]
          /\ Leave(t, "StartupError", {"start_error"})
          /\ UNCHANGED workers
       \/ /\ objs' = [objs EXCEPT ![call[t].obj].app = TRUE]
          /\ workers' = Append(workers,
                 [obj |-> call[t].obj, pc |-> "spawned", closed |-> FALSE])
          /\ Leave(t, "ok", {})
    /\ UNCHANGED <<bots, configs, file, ncalls>>
    /\ UNCHANGED evars

\* ------------------------------------------------------------ run_bot
\* self.handler = SocketModeHandler(self.app, self.app_token); an exception
\* ends the thread and reaches nobody.
WorkerMakeHandler(w) ==
    /\ workers[w].pc = "spawned"
    /\ \/ /\ workers' = [workers EXCEPT ![w].pc = "dead"]
          /\ UNCHANGED objs
       \/ /\ workers' = [workers EXCEPT ![w].pc = "made"]
          /\ objs' = [objs EXCEPT ![workers[w].obj].handler = w]
    /\ ret' = NoRet
    /\ UNCHANGED <<bots, configs, file, call, ncalls>>
    /\ UNCHANGED evars

\* self.running = True
WorkerMarkRunning(w) ==
    /\ workers[w].pc = "made"
    /\ workers' = [workers EXCEPT ![w].pc = "marked"]
    /\ objs' = [objs EXCEPT ![workers[w].obj].running = TRUE]
    /\ ret' = NoRet
    /\ UNCHANGED <<bots, configs, file, call, ncalls>>
    /\ UNCHANGED evars

\* self.handler.start(): connect, then block for ever.  A failed connect
\* ends the thread with running left as it is.  A handler closed before it
\* connects either fails to connect or blocks with its client closed.
WorkerConnect(w) ==
    /\ workers[w].pc = "marked"
    /\ \/ workers' = [workers EXCEPT ![w].pc = "dead"]
       \/ workers' = [workers EXCEPT ![w].pc = "serving"]
    /\ ret' = NoRet
    /\ UNCHANGED <<bots, objs, configs, file, call, ncalls>>
    /\ UNCHANGED evars

\* A worker that consumes events, or is on its way to.
Live(w) ==
    /\ workers[w].pc \in {"spawned", "made", "marked", "serving"}
    /\ ~workers[w].closed

\* ------------------------------------------ BotFactory.stop_bot / delete_bot
\* stop_bot has returned: back in the caller (delete_bot) or to the client.
StopDone(t, logs) ==
    IF call[t].op = "delete"
    THEN /\ call' = [call EXCEPT ![t].pc = "d_del", ![t].obj = 0,
                                 ![t].logged = call[t].logged \cup logs]
         /\ ret' = NoRet
    ELSE Leave(t, "ok", logs)

\* stop_bot that takes an unknown id for a stopped one.
StopCheck_Silent(t) ==
    /\ call[t].pc = "p_chk"
    /\ IF call[t].id \in DOMAIN bots
       THEN Goto(t, "p_get")
       ELSE StopDone(t, {})
    /\ UNCHANGED <<bots, objs, workers, configs, file, ncalls>>
    /\ UNCHANGED evars

\* if bot_id not in self.bots: raise ValueError
StopCheck(t) ==
    /\ call[t].pc = "p_chk"
    /\ IF call[t].id \in DOMAIN bots
       THEN Goto(t, "p_get")
       ELSE Leave(t, "NotFound", {})
    /\ UNCHANGED <<bots, objs, workers, configs, file, ncalls>>
    /\ UNCHANGED evars

\* self.bots[bot_id].stop(): the lookup, then BotInstance.stop's
\* if not self.running: return.
StopGet(t) ==
    /\ call[t].pc = "p_get"
    /\ IF call[t].id \notin DOMAIN bots
       THEN Leave(t, "KeyError", {})
       ELSE IF ~objs[bots[call[t].id]].running
       THEN StopDone(t, {})
       ELSE Jump(t, "p_close", bots[call[t].id], NoCfg)
    /\ UNCHANGED <<bots, objs, workers, configs, file, ncalls>>
    /\ UNCHANGED evars

\* if self.handler: self.handler.close().  An exception is caught and
\* logged, skipping self.running = False; the handler it was closing is then
\* closed or not.
StopClose(t) ==
    /\ call[t].pc = "p_close"
    /\ LET h == objs[call[t].obj].handler IN
       IF h = 0
       THEN /\ Goto(t, "p_mark")
            /\ UNCHANGED workers
       ELSE \/ /\ workers' = [workers EXCEPT ![h].closed = TRUE]
               /\ Goto(t, "p_mark")
            \/ /\ \/ workers' = [workers EXCEPT ![h].closed = TRUE]
                  \/ UNCHANGED workers
               /\ StopDone(t, {"stop_error"})
    /\ UNCHANGED <<bots, objs, configs, file, ncalls>>
    /\ UNCHANGED evars

\* self.running = False
StopMark(t) ==
    /\ call[t].pc = "p_mark"
    /\ objs' = [objs EXCEPT ![call[t].obj].running = FALSE]
    /\ StopDone(t, {})
    /\ UNCHANGED <<bots, workers, configs, file, ncalls>>
    /\ UNCHANGED evars

\* delete_bot that goes to stop_bot whether or not the id is registered.
DeleteCheck_Strict(t) ==
    /\ At(t, "delete", "d_chk")
    /\ Goto(t, "p_chk")
    /\ UNCHANGED <<bots, objs, workers, configs, file, ncalls>>
    /\ UNCHANGED evars

\* delete_bot: if bot_id in self.bots: self.stop_bot(bot_id) ...
DeleteCheck(t) ==
    /\ At(t, "delete", "d_chk")
    /\ IF call[t].id \in DOMAIN bots
       THEN Goto(t, "p_chk")
       ELSE Return(t, "ok", {})
    /\ UNCHANGED <<bots, objs, workers, configs, file, ncalls>>
    /\ UNCHANGED evars

\* del self.bots[bot_id]; if self.persist: self.storage.delete_bot(bot_id)
DeleteDel(t) ==
    /\ At(t, "delete", "d_del")
    /\ IF call[t].id \notin DOMAIN bots
       THEN Return(t, "KeyError", {}) /\ UNCHANGED bots
       ELSE /\ bots' = Del(bots, call[t].id)
            /\ IF persist
               THEN Goto(t, "d_cfg")
               ELSE Return(t, "ok", {Info(t)})
    /\ UNCHANGED <<objs, workers, configs, file, ncalls>>
    /\ UNCHANGED evars

\* list_bots that returns every field of the BotInstance.
list_bots_Full ==
    [id \in DOMAIN bots |->
        [bot_token |-> objs[bots[id]].cfg.bot_token,
         app_token |-> objs[bots[id]].cfg.app_token,
         signing_secret |-> objs[bots[id]].cfg.signing_secret,
         agent_url |-> objs[bots[id]].cfg.agent_url,
         channel_id |-> objs[bots[id]].cfg.channel_id,
         running |-> objs[bots[id]].running]]

\* BotFactory.list_bots
list_bots ==
    [id \in DOMAIN bots |->
        [agent_url |-> objs[bots[id]].cfg.agent_url,
         channel_id |-> objs[bots[id]].cfg.channel_id,
         running |-> objs[bots[id]].running]]

\* A request thread enters start_all or stop_all.
InvokeBulk(t) ==
    /\ call[t].op = "idle"
    /\ ncalls < MaxCalls
    /\ ncalls' = ncalls + 1
    /\ \E op \in Bulk :
          call' = [call EXCEPT ![t] = [Idle EXCEPT !.op = op, !.pc = "a_next"]]
    /\ ret' = NoRet
    /\ UNCHANGED <<bots, objs, workers, configs, file>>
    /\ UNCHANGED evars

\* The registered id a dict iterator that has returned seen yields next: the
\* first, in insertion order, of the others.
NextKey(seen) ==
    CHOOSE id \in DOMAIN bots \ seen :
        \A other \in DOMAIN bots \ seen : bots[id] <= bots[other]

\* for bot_id in self.bots: one step of the iterator over the live dict (the
\* first makes it and records the dict's size).  It raises RuntimeError when
\* the size is no longer the recorded one, ends the loop when no key is left,
\* and otherwise enters start_bot / stop_bot with the next key.
BulkNext(t) ==
    /\ call[t].op \in Bulk /\ call[t].pc = "a_next"
    /\ LET n == IF call[t].size < 0 THEN Cardinality(DOMAIN bots)
                ELSE call[t].size IN
       IF Cardinality(DOMAIN bots) # n
       THEN Return(t, "RuntimeError", {})
       ELSE IF DOMAIN bots \subseteq call[t].seen
       THEN Return(t, "ok",
                   IF call[t].failed = {} THEN {} ELSE {"bulk_error"})
       ELSE /\ call' = [call EXCEPT
                   ![t].id = NextKey(call[t].seen),
                   ![t].seen = call[t].seen \cup {NextKey(call[t].seen)},
                   ![t].size = n,
                   ![t].pc = IF call[t].op = "start_all"
                             THEN "s_chk" ELSE "p_chk"]
            /\ ret' = NoRet
    /\ UNCHANGED <<bots, objs, workers, configs, file, ncalls>>
    /\ UNCHANGED evars

\* GET /bots/<bot_id>: 404 for an id list_bots does not return, otherwise
\* {"bot_id": bot_id, **bots[bot_id]}.
get_bot(bot_id) ==
    IF bot_id \notin DOMAIN list_bots
    THEN [status |-> 404, body |-> [error |-> "Bot not found"]]
    ELSE [status |-> 200,
          body |-> [f \in {"bot_id"} \cup DOMAIN list_bots[bot_id] |->
                      IF f = "bot_id" THEN bot_id ELSE list_bots[bot_id][f]]]

\* BotStorage._load: {} when the file is missing, and {} (with a print) when
\* it does not parse; otherwise the mapping json.dump wrote.
Load(f) == IF f.state = "ok" THEN f.data ELSE EmptyMap

\* BotStorage().get_all() in a new process: a copy of what _load returns.
get_all_after_restart == Load(file)

\* ------------------------------------------- BotInstance event handling
\* The anchor taken to be the event's own timestamp, thread or not.
ThreadAnchor_OwnTs(ev) == ev.ts

\* thread_ts = event.get("thread_ts") or event.get("ts")
ThreadAnchor(ev) == IF ev.thread_ts # "None" THEN ev.thread_ts ELSE ev.ts

\* A message handler that takes every message event that has no subtype and
\* no bot_id, whatever its channel.
Accepts_AllChannels(o, ev) ==
    \/ ev.type = "app_mention"
    \/ ev.type = "message" /\ ~(ev.subtype \/ ev.bot_id)

\* _setup_handlers: every app_mention event goes to _handle_message; a
\* message event does when it has no subtype and no bot_id and is a direct
\* message or is in the configured channel.
Accepts(o, ev) ==
    \/ ev.type = "app_mention"
    \/ /\ ev.type = "message"
       /\ ~(ev.subtype \/ ev.bot_id)
       /\ \/ ev.channel_type = "im"
          \/ /\ objs[o].cfg.channel_id # "None"
             /\ ev.channel = objs[o].cfg.channel_id

\* re.sub(f"<@{user_id}>", "", text)
re_sub(user_id, text) == SelectSeq(text, LAMBDA x : x # MentionTok(user_id))

\* The text left untrimmed.
strip_Keep(text) == text

\* str.strip()
strip(text) ==
    LET inked == {i \in 1..Len(text) : text[i].k # "sp"} IN
    IF inked = {} THEN <<>>
    ELSE SubSeq(text,
                CHOOSE i \in inked : \A j \in inked : i <= j,
                CHOOSE i \in inked : \A j \in inked : i >= j)

\* Python truthiness of what dict.get returns ("absent" is None).
Truthy(v) == v \notin {"absent", ""}

\* data.get("response") or data.get("message") or data.get("text", "")
ReplyText(body) ==
    IF Truthy(body.response) THEN body.response
    ELSE IF Truthy(body.message) THEN body.message
    ELSE IF body.text = "absent" THEN "" ELSE body.text

\* _handle_message whose agent call is under the outer try alone.
TryOf_Flat(pc) == "outer"

\* _handle_message whose except block for the agent call is outside the
\* outer try.
TryOf_Bare(pc) ==
    IF pc \in {"agent", "reply"} THEN "inner"
    ELSE IF pc = "apology" THEN "none" ELSE "outer"

\* The try block whose except clause an exception raised at pc reaches: the
\* inner one (lines 80-91) around _call_agent and the reply's say, the outer
\* one (lines 58-94) around everything else, its except block included.
TryOf(pc) == IF pc \in {"agent", "reply"} THEN "inner" ELSE "outer"

\* The call after an exception raised where rec is: in the inner except
\* block, about to say the apology, having logged; or returned from the
\* outer one, having logged; or left by the exception.
Caught(rec) ==
    CASE TryOf(rec.pc) = "inner" ->
            [rec EXCEPT !.pc = "apology",
                        !.log = @ \cup {"error_calling_agent"}]
      [] TryOf(rec.pc) = "outer" ->
            [rec EXCEPT !.pc = "done", !.log = @ \cup {"error_handling"}]
      [] OTHER -> [rec EXCEPT !.pc = "crashed"]

\* The listener thread h goes on as rec says, having received the event ev
\* and the answer; a call that has returned leaves the thread free for the
\* next event.
Settle(h, rec, ev, answer) ==
    /\ listener' = [listener EXCEPT ![h] =
            IF rec.pc = "done"
            THEN [LIdle EXCEPT !.after_error = (rec.log # {})]
            ELSE rec]
    /\ obs' = [h |-> h, ev |-> ev, answer |-> answer,
               out |-> IF rec.pc = "done" THEN rec ELSE NoOut]

\* The listener threads are interchangeable: an event goes to the first that
\* is free.
FirstFree == IF listener["l1"].pc = "idle" THEN "l1" ELSE "l2"

\* A connected worker's App hands an event to a free listener thread:
\* handle_mention / handle_message (lines 39-54), then _handle_message down to
\* the test of line 65.
Deliver(h) ==
    /\ listener[h].pc = "idle"
    /\ h = FirstFree
    /\ nev < MaxEvents
    /\ nev' = nev + 1
    /\ \E w \in 1..Len(workers) : \E ev \in Events :
          /\ workers[w].pc = "serving" /\ ~workers[w].closed
          /\ LET o == workers[w].obj IN
             IF Accepts(o, ev)
             THEN Settle(h,
                         [listener[h] EXCEPT
                             !.pc = IF objs[o].bot_user_id = "None"
                                    THEN "auth" ELSE "clean",
                             !.obj = o,
                             !.mention = (ev.type = "app_mention"),
                             !.text = ev.text,
                             !.thread_ts = ThreadAnchor(ev)],
                         ev, NoAnswer)
             ELSE Settle(h, [listener[h] EXCEPT !.pc = "done", !.obj = o],
                         ev, NoAnswer)
    /\ UNCHANGED <<bots, objs, workers, configs, file, call, ret, ncalls>>

\* Lines 66-67: client.auth_test() raises, or its user_id is cached.
Auth(h) ==
    /\ listener[h].pc = "auth"
    /\ \/ /\ Settle(h, Caught(listener[h]), NoEvent, NoAnswer)
          /\ UNCHANGED objs
       \/ /\ objs' = [objs EXCEPT ![listener[h].obj].bot_user_id = BotUser]
          /\ Settle(h, [listener[h] EXCEPT !.pc = "clean"], NoEvent, NoAnswer)
    /\ UNCHANGED <<bots, workers, configs, file, call, ret, ncalls, nev>>

\* Lines 70-75: a mention loses the bot's mention tokens and its outer
\* blanks; an empty text ends the call.
Clean(h) ==
    /\ listener[h].pc = "clean"
    /\ LET id == objs[listener[h].obj].bot_user_id
           text == IF listener[h].mention /\ id # "None"
                   THEN strip(re_sub(id, listener[h].text))
                   ELSE listener[h].text
       IN Settle(h,
                 [listener[h] EXCEPT !.text = text,
                     !.pc = IF text = <<>> THEN "done" ELSE "agent"],
                 NoEvent, NoAnswer)
    /\ UNCHANGED <<bots, objs, workers, configs, file, call, ret, ncalls, nev>>

\* Line 81 and _call_agent: the POST times out, or comes back with an error
\* status or a body that does not parse (logged and raised again), or with a
\* JSON object whose reply text, if not empty, is to be said.
Agent(h) ==
    /\ listener[h].pc = "agent"
    /\ \E a \in Answers :
          LET rec == [listener[h] EXCEPT !.gw = @ + 1, !.text = <<>>] IN
          IF a.kind # "body"
          THEN Settle(h,
                      Caught([rec EXCEPT !.log = @ \cup {"agent_call_failed"}]),
                      NoEvent, a)
          ELSE Settle(h,
                      [rec EXCEPT !.resp = ReplyText(a.body),
                          !.pc = IF Truthy(ReplyText(a.body))
                                 THEN "reply" ELSE "done"],
                      NoEvent, a)
    /\ UNCHANGED <<bots, objs, workers, configs, file, call, ret, ncalls, nev>>

\* say(text=..., thread_ts=thread_ts) as the call of rec makes it.
Said(rec, text, ok) ==
    [rec EXCEPT !.says = Append(@, [text |-> text,
                                    thread_ts |-> rec.thread_ts, ok |-> ok])]

\* Line 84: say(text=response, thread_ts=thread_ts), which may raise.
Reply(h) ==
    /\ listener[h].pc = "reply"
    /\ \/ Settle(h, [Said(listener[h], listener[h].resp, TRUE)
                         EXCEPT !.pc = "done"], NoEvent, NoAnswer)
       \/ Settle(h, Caught(Said(listener[h], listener[h].resp, FALSE)),
                 NoEvent, NoAnswer)
    /\ UNCHANGED <<bots, objs, workers, configs, file, call, ret, ncalls, nev>>

\* Lines 88-91: say(text="Sorry, ...", thread_ts=thread_ts), which may raise.
SayApology(h) ==
    /\ listener[h].pc = "apology"
    /\ \/ Settle(h, [Said(listener[h], Apology, TRUE) EXCEPT !.pc = "done"],
                 NoEvent, NoAnswer)
       \/ Settle(h, Caught(Said(listener[h], Apology, FALSE)),
                 NoEvent, NoAnswer)
    /\ UNCHANGED <<bots, objs, workers, configs, file, call, ret, ncalls, nev>>

\* ------------------------------------------------------------------ Next
Step(t) ==
    \/ CreateCheck(t)
    \/ CreateRegister(t)
    \/ StorageSaveBot(t)
    \/ FileOpen(t)
    \/ FileDump(t)
    \/ StartCheck(t)
    \/ StartGet(t)
    \/ StartApp(t)
    \/ StopCheck(t)
    \/ StopGet(t)
    \/ StopClose(t)
    \/ StopMark(t)
    \/ DeleteCheck(t)
    \/ DeleteDel(t)
    \/ StorageDeleteBot(t)

WorkerStep(w) ==
    \/ WorkerMakeHandler(w)
    \/ WorkerMarkRunning(w)
    \/ WorkerConnect(w)

Next ==
    \/ \E t \in Threads : Invoke(t)
    \/ \E t \in Threads : Step(t)
    \/ \E w \in 1..Len(workers) : WorkerStep(w)

Spec == Init /\ [][Next]_vars

\* The control plane with POST /bots/start-all and /bots/stop-all: one client
\* makes these calls while another creates and deletes bots.
NextBulk ==
    \/ InvokeBulk("t1")
    \/ Invoke("t2") /\ call'["t2"].op \in {"create", "delete"}
    \/ \E t \in Threads : Step(t)
    \/ \E t \in Threads : BulkNext(t)
    \/ \E w \in 1..Len(workers) : WorkerStep(w)

SpecBulk == Init /\ [][NextBulk]_vars

\* The control plane used by clients that wait for the answer to one request
\* before the next is sent: a Manager method is entered only when no other
\* is in progress.  The run_bot threads run as they do.
NextSerial ==
    \/ \E t \in Threads :
          /\ \A u \in Threads : call[u].op = "idle"
          /\ Invoke(t)
    \/ \E t \in Threads : Step(t)
    \/ \E w \in 1..Len(workers) : WorkerStep(w)

SpecSerial == Init /\ [][NextSerial]_vars

\* The control plane with POST /bots, used by clients that wait for the
\* answer to one request before the next is sent.
NextApi ==
    \/ \E t \in Threads :
          /\ \A u \in Threads : call[u].op = "idle"
          /\ ncalls < MaxRequests
          /\ PostBots(t)
    \/ \E t \in Threads :
          /\ \A u \in Threads : call[u].op = "idle"
          /\ ncalls < MaxRequests
          /\ Invoke(t) /\ call'[t].op # "create"
    \/ \E t \in Threads : Step(t)
    \/ \E w \in 1..Len(workers) : WorkerStep(w)

SpecApi == Init /\ [][NextApi]_vars

\* A connection after create("c1", cfg) and start("c1") have returned and its
\* worker has connected: registered, stored, running, its identity not yet
\* resolved.
InitServing ==
    /\ InitEvents
    /\ \E t \in Threads :
          /\ bots = [id \in {"c1"} |-> 1]
          /\ objs = <<[BotInstance("c1", CfgOf(t)) EXCEPT
                          !.app = TRUE, !.handler = 1, !.running = TRUE]>>
          /\ workers = <<[obj |-> 1, pc |-> "serving", closed |-> FALSE]>>
          /\ configs = [id \in {"c1"} |-> CfgOf(t)]
          /\ file = [state |-> "ok", data |-> [id \in {"c1"} |-> CfgOf(t)]]
    /\ call = [t \in Threads |-> Idle]
    /\ ret = NoRet
    /\ ncalls = 2

ListenerStep(h) ==
    \/ Deliver(h)
    \/ Auth(h)
    \/ Clean(h)
    \/ Agent(h)
    \/ Reply(h)
    \/ SayApology(h)

\* The events of one serving connection, handled by its listener threads.
NextEvents == \E h \in Listeners : ListenerStep(h)

SpecEvents == InitServing /\ [][NextEvents]_vars

\* ---------------------------------------------------------------- claims
Objs == 1..Len(objs)
Workers == 1..Len(workers)
LiveWorkersOf(o) == {w \in Workers : workers[w].obj = o /\ Live(w)}
Quiescent == \A t \in Threads : call[t].op = "idle"
InFile(id) == file.state = "ok" /\ id \in DOMAIN file.data
\* The request thread t takes this step.
Steps(t) == call'[t] # call[t]

\* C1: a Connection never has more than one live worker: a second start of a
\* started connection, with no stop in between, spawns no second worker.
C1_AtMostOneLiveWorker ==
    \A o \in Objs : Cardinality(LiveWorkersOf(o)) <= 1

\* C2: calls on the same id never interleave their effects, so whenever no
\* call is in progress the registry and the Store are as some serial order of
\* the calls leaves them.  Every serial order of create and delete from the
\* empty factory leaves the two with the same ids and the same configs
\* (create writes both, delete removes both).
C2_SameIdCallsSerialized ==
    Quiescent =>
        /\ DOMAIN bots = DOMAIN configs
        /\ \A id \in DOMAIN bots : objs[bots[id]].cfg = configs[id]

\* C3: create on a registered id (given, or generated) raises AlreadyExists
\* and changes neither the registry, nor any Connection, nor the Store; only
\* an id found unregistered goes on to be registered.
C3_CreateRejectsRegisteredId ==
    [][\A t \in Threads :
          (At(t, "create", "c_chk") /\ Steps(t)) =>
             LET id == IF call'[t].op = "idle" THEN ret'.id ELSE call'[t].id IN
             /\ ~call[t].auto => id = call[t].id
             /\ IF id \in DOMAIN bots
                THEN /\ call'[t].op = "idle"
                     /\ ret'.t = t /\ ret'.op = "create"
                     /\ ret'.res = "AlreadyExists"
                     /\ UNCHANGED <<bots, objs, workers, configs, file>>
                ELSE /\ call'[t].pc = "c_reg"
                     /\ UNCHANGED bots]_vars

\* C3 witness: a create has just been refused for an id that is registered.
C3_Witness ==
    ret.op = "create" /\ ret.res = "AlreadyExists" /\ ret.id \in DOMAIN bots

\* C4: a create whose durable write failed reports an error and leaves its id
\* out of the registry.
C4_FailedSaveAbortsCreate ==
    (ret.op = "create" /\ "save_error" \in ret.logged) =>
        (ret.res # "ok" /\ ret.id \notin DOMAIN bots)

\* C5: a start that fails, in the caller's thread or in the worker, leaves
\* the connection not running, and the caller gets the error.
C5_FailedStartLeavesNotRunning ==
    [][/\ \A t \in Threads :
             (At(t, "start", "s_app") /\ Steps(t) /\ workers' = workers) =>
                (ret'.res # "ok" /\ ~objs'[call[t].obj].running)
       /\ \A w \in Workers :
             (workers[w].pc # "dead" /\ workers'[w].pc = "dead") =>
                ~objs'[workers[w].obj].running]_vars

\* C6: a stop of a registered running connection returns without error with
\* the connection marked not running, whether or not the close failed.
C6_StopAlwaysStops ==
    [][\A t \in Threads :
          (call[t].op = "stop" /\ call[t].pc \in {"p_close", "p_mark"}
             /\ call'[t].op = "idle") =>
                (ret'.res = "ok" /\ ~objs'[call[t].obj].running)]_vars

\* C7: when start(id) has returned without error list() shows the id
\* running; when stop(id) has returned without error list() shows it not
\* running.
C7_ListFollowsStartStop ==
    (ret.res = "ok" /\ ret.id \in DOMAIN bots) =>
        /\ ret.op = "start" => list_bots[ret.id].running
        /\ ret.op = "stop" => ~list_bots[ret.id].running

\* What a step about id a leaves alone: the registry entry, the stored
\* config, the BotInstance and the workers of every other id.
Frame(a) ==
    \A b \in Ids \ {a} :
       /\ (b \in DOMAIN bots) = (b \in DOMAIN bots')
       /\ b \in DOMAIN bots => bots'[b] = bots[b]
       /\ (b \in DOMAIN configs) = (b \in DOMAIN configs')
       /\ b \in DOMAIN configs => configs'[b] = configs[b]
       /\ \A o \in Objs : objs[o].bot_id = b => objs'[o] = objs[o]
       /\ \A w \in Workers :
             objs[workers[w].obj].bot_id = b => workers'[w] = workers[w]
       /\ \A w \in 1..Len(workers') :
             w \notin Workers => objs'[workers'[w].obj].bot_id # b

\* C8: a step of a call on id A, or of a worker of A, changes nothing of any
\* other id, and a call in progress can always take its next step, whatever
\* the other request threads are in the middle of.
C8_OtherIdsUntouched ==
    [][/\ \A t \in Threads :
             Steps(t) =>
                Frame(IF call'[t].op = "idle" /\ call[t].op # "idle"
                      THEN ret'.id ELSE call'[t].id)
       /\ \A w \in Workers :
             workers'[w] # workers[w] /\ call' = call =>
                Frame(objs[workers[w].obj].bot_id)
       /\ \A t \in Threads : call[t].op # "idle" => ENABLED Step(t)]_vars

\* C8 witness: a delete of one id has left the registry and not yet the Store
\* while a create of another id, already registered, is writing the file.
C8_Witness ==
    \E t, u \in Threads :
       /\ At(t, "create", "f_dump") /\ At(u, "delete", "d_cfg")
       /\ call[t].id # call[u].id
       /\ call[t].id \in DOMAIN bots

\* C9: with persistence on, every registered id is in the Store.
C9_RegistryWithinStore ==
    persist => DOMAIN bots \subseteq DOMAIN configs

\* C10: when delete of a registered id has returned without error the id is
\* in neither the registry, nor the Store mapping, nor the file.
C10_DeleteRemovesEverywhere ==
    (ret.op = "delete" /\ ret.res = "ok" /\ "deleted" \in ret.logged) =>
        /\ ret.id \notin DOMAIN bots
        /\ ret.id \notin DOMAIN configs
        /\ ~InFile(ret.id)

\* C11: create never starts anything: none of its steps touches a worker or
\* an existing BotInstance; the BotInstance it registers under its id is not
\* running, has no handler and no worker and holds the submitted config; and
\* (persist) the record it stores under that id is the submitted config, all
\* five fields of it.
C11_CreateRegistersStopped ==
    [][\A t \in Threads :
          (call[t].op = "create" /\ Steps(t)) =>
             /\ workers' = workers
             /\ \A o \in Objs : objs'[o] = objs[o]
             /\ call[t].pc = "c_reg" =>
                   /\ call[t].id \in DOMAIN bots'
                   /\ LET b == objs'[bots'[call[t].id]] IN
                      /\ ~b.running /\ b.handler = 0 /\ ~b.app
                      /\ b.bot_id = call[t].id
                      /\ b.cfg = CfgOf(t)
                   /\ \A w \in Workers : workers[w].obj # bots'[call[t].id]
                   /\ persist => call'[t].pc = "b_save"
             /\ call[t].pc = "b_save" =>
                   /\ call[t].id \in DOMAIN configs'
                   /\ configs'[call[t].id] = CfgOf(t)]_vars

\* C11 witness: a create has returned with its id registered, not running,
\* without a worker, and stored with the config of its BotInstance.
C11_Witness ==
    /\ ret.op = "create" /\ ret.res = "ok"
    /\ ret.id \in DOMAIN bots /\ ret.id \in DOMAIN configs
    /\ ~objs[bots[ret.id]].running
    /\ \A w \in Workers : workers[w].obj # bots[ret.id]
    /\ configs[ret.id] = CfgOf(ret.t)

\* C12: start_bot and stop_bot called with an id that is not registered raise
\* ValueError (NotFound) at their first step and change neither the registry,
\* nor the Store, nor its file, nor any BotInstance or worker.
C12_UnknownIdNotFound ==
    [][\A t \in Threads :
          (call[t].op \in {"start", "stop"} /\ call[t].pc \in {"s_chk", "p_chk"}
             /\ Steps(t) /\ call[t].id \notin DOMAIN bots) =>
                /\ call'[t].op = "idle"
                /\ ret'.t = t /\ ret'.op = call[t].op /\ ret'.id = call[t].id
                /\ ret'.res = "NotFound"
                /\ UNCHANGED <<bots, objs, workers, configs, file>>]_vars

\* C12 witness: a stop of an unregistered id has just raised NotFound.
C12_Witness ==
    ret.op = "stop" /\ ret.res = "NotFound" /\ ret.id \notin DOMAIN bots

\* C13: delete_bot called with an id that is not registered returns at once
\* without an error and without a log line, and changes neither the registry,
\* nor the Store mapping, nor the file, nor any BotInstance or worker.
C13_DeleteUnknownIsNoOp ==
    [][\A t \in Threads :
          (At(t, "delete", "d_chk") /\ Steps(t)
             /\ call[t].id \notin DOMAIN bots) =>
                /\ call'[t].op = "idle"
                /\ ret'.t = t /\ ret'.op = "delete" /\ ret'.id = call[t].id
                /\ ret'.res = "ok" /\ ret'.logged = {}
                /\ UNCHANGED <<bots, objs, workers, configs, file>>]_vars

\* C13 witness: a delete of an id that was constructed once and is out of the
\* registry has just returned as a no-op.
C13_Witness ==
    /\ ret.op = "delete" /\ ret.res = "ok" /\ ret.logged = {}
    /\ ret.id \notin DOMAIN bots
    /\ \E o \in Objs : objs[o].bot_id = ret.id

Secrets ==
    UNION {{c.bot_token, c.app_token, c.signing_secret} : c \in {CfgA, CfgB}}
ListFields == {"agent_url", "channel_id", "running"}

\* list() and GET /bots/<id> show the registered ids, three fields each, none
\* of them a secret.
NoSecretListed ==
    /\ DOMAIN list_bots = DOMAIN bots
    /\ \A id \in DOMAIN list_bots :
          /\ DOMAIN list_bots[id] = ListFields
          /\ list_bots[id].agent_url \notin Secrets
          /\ list_bots[id].channel_id \notin Secrets
          /\ list_bots[id].running \in BOOLEAN
          /\ get_bot(id).status = 200
          /\ DOMAIN get_bot(id).body = ListFields \cup {"bot_id"}
          /\ get_bot(id).body.bot_id = id
          /\ \A f \in ListFields : get_bot(id).body[f] = list_bots[id][f]
    /\ \A id \in Ids \ DOMAIN bots : get_bot(id).status = 404

\* C15: whatever a step makes of what list() returns (nothing, to begin
\* with) has one entry for exactly each registered id, made of agent_url,
\* channel_id and running alone, with no token or secret in it (and GET
\* /bots/<id> shows the same entry); and as soon as create has registered its
\* id the entry of that id shows the submitted agent_url and channel_id, not
\* running.
C15_ListHidesSecrets ==
    [][/\ list_bots' # list_bots => NoSecretListed'
       /\ \A t \in Threads :
             (At(t, "create", "c_reg") /\ Steps(t)) =>
                /\ call[t].id \in DOMAIN list_bots'
                /\ list_bots'[call[t].id] =
                      [agent_url |-> CfgOf(t).agent_url,
                       channel_id |-> CfgOf(t).channel_id,
                       running |-> FALSE]]_vars

\* C15 witness: a create has returned and list() shows two ids, the new one
\* with the submitted agent_url and channel_id.
C15_Witness ==
    /\ ret.op = "create" /\ ret.res = "ok"
    /\ Cardinality(DOMAIN list_bots) = 2
    /\ ret.id \in DOMAIN list_bots
    /\ list_bots[ret.id].agent_url = CfgOf(ret.t).agent_url
    /\ list_bots[ret.id].channel_id = CfgOf(ret.t).channel_id

\* C16: when a Store call that changed the mapping (save_bot, or delete_bot
\* of a stored id) returns, the file holds the in-memory mapping: a
\* BotStorage constructed then by a new process gets from get_all() the
\* records in memory now.
C16_FileMirrorsStore ==
    [][\A t \in Threads :
          (call[t].pc \in {"f_open", "f_dump"} /\ call'[t].op = "idle") =>
             get_all_after_restart' = configs']_vars

\* start_bot / stop_bot, at the step t takes, raises.
RaisesFor(t) ==
    \/ call[t].pc \in {"s_chk", "s_get", "p_chk", "p_get"}
          /\ call[t].id \notin DOMAIN bots
    \/ call[t].pc = "s_app" /\ workers' = workers

\* C14: inside start_all / stop_all no step of one id's start_bot or stop_bot
\* ends the call: when it raises, the id is logged as failed and the loop
\* takes its next step; and the loop (over a registry whose size is the one it
\* started with) goes on to a registered id it has not attempted while there
\* is one, and returns without error when there is none, with an error logged
\* if an id failed.
C14_BulkCatchesFailures ==
    [][\A t \in Threads :
          (call[t].op \in Bulk /\ Steps(t)) =>
             /\ call[t].pc # "a_next" =>
                   /\ call'[t].op = call[t].op
                   /\ call'[t].seen = call[t].seen
                   /\ RaisesFor(t) =>
                         /\ call'[t].pc = "a_next"
                         /\ call'[t].failed = call[t].failed \cup {call[t].id}
                   /\ ~RaisesFor(t) => call'[t].failed = call[t].failed
             /\ (call[t].pc = "a_next"
                   /\ call[t].size \in {-1, Cardinality(DOMAIN bots)}) =>
                   IF DOMAIN bots \subseteq call[t].seen
                   THEN /\ call'[t].op = "idle"
                        /\ ret'.t = t /\ ret'.op = call[t].op
                        /\ ret'.res = "ok"
                        /\ call[t].failed # {} => "bulk_error" \in ret'.logged
                   ELSE /\ call'[t].op = call[t].op
                        /\ call'[t].id \in DOMAIN bots \ call[t].seen
                        /\ call'[t].seen = call[t].seen \cup {call'[t].id}
                        /\ call'[t].pc = IF call[t].op = "start_all"
                                         THEN "s_chk" ELSE "p_chk"]_vars

\* C14 witness: start_all, after the start of one id has failed, is starting
\* another.
C14_Witness ==
    \E t \in Threads :
       /\ call[t].op = "start_all" /\ call[t].pc = "s_app"
       /\ call[t].failed # {} /\ call[t].id \notin call[t].failed

\* ------------------------------------------------- claims on event handling
\* The _call_agent call of the handling that ended with out raised.
GatewayFailed(out) == "agent_call_failed" \in out.log
Failures == {"timeout", "status", "malformed"}

\* C17: a gateway call that times out, comes back with an error status or
\* with a body that does not parse leaves the handler about to say the
\* apology, nothing said yet; the handling of such an event ends with exactly
\* one say call, the apology, in the event's thread anchor, whether or not
\* that call got through; and the listener thread is free for the next event,
\* never left by the exception.
C17_GatewayFailureApologizesOnce ==
    /\ obs.answer.kind \in Failures =>
          /\ listener[obs.h].pc = "apology"
          /\ listener[obs.h].says = <<>>
          /\ "agent_call_failed" \in listener[obs.h].log
    /\ (obs.out.pc = "done" /\ GatewayFailed(obs.out)) =>
          /\ obs.out.gw = 1
          /\ Len(obs.out.says) = 1
          /\ obs.out.says[1].text = Apology
          /\ obs.out.says[1].thread_ts = obs.out.thread_ts
          /\ listener[obs.h].pc = "idle"
    /\ \A h \in Listeners : listener[h].pc # "crashed"

\* C17 witness: a listener thread whose previous event ended in an error has
\* handled an event whose gateway call failed, and the apology went into the
\* thread T1.
C17_Witness ==
    /\ obs.out.pc = "done" /\ GatewayFailed(obs.out)
    /\ obs.out.after_error
    /\ obs.out.says = <<[text |-> Apology, thread_ts |-> "T1", ok |-> TRUE]>>

\* C18: no exception leaves _handle_message: a listener thread is always
\* free or inside a call, and the handling of an event in which a say call or
\* the gateway call or auth.test failed has returned with the error logged
\* (by the outer except when it is the apology, or auth.test, that failed),
\* leaving the thread free for the next event.
C18_NoExceptionEscapes ==
    /\ \A h \in Listeners :
          listener[h].pc \in
              {"idle", "auth", "clean", "agent", "reply", "apology"}
    /\ obs.out.pc \in {"-", "done"}
    /\ obs.out.pc = "done" =>
          LET out == obs.out IN
          /\ listener[obs.h].pc = "idle"
          /\ listener[obs.h].after_error = (out.log # {})
          /\ (\E i \in 1..Len(out.says) : ~out.says[i].ok) =>
                "error_calling_agent" \in out.log
          /\ (out.says # <<>> /\ ~out.says[Len(out.says)].ok) =>
                (out.says[Len(out.says)].text = Apology
                   /\ "error_handling" \in out.log)
          /\ GatewayFailed(out) => "error_calling_agent" \in out.log
    /\ (obs.h # "" /\ obs.ev = NoEvent /\ obs.answer = NoAnswer
          /\ obs.out.pc = "done" /\ obs.out.gw = 0 /\ obs.out.text # <<>>) =>
             "error_handling" \in obs.out.log

\* C18 witness: a listener thread whose previous event ended in an error has
\* handled an event to its reply.
C18_Witness ==
    /\ obs.out.pc = "done" /\ obs.out.after_error
    /\ obs.out.log = {}
    /\ Len(obs.out.says) = 1 /\ obs.out.says[1].ok
    /\ obs.out.says[1].text = obs.out.resp

\* The anchor of an event taken in: its thread_ts if it has one, else its ts.
AnchorTaken ==
    (obs.ev # NoEvent /\ listener[obs.h].pc \in {"auth", "clean"}) =>
        listener[obs.h].thread_ts =
            IF obs.ev.thread_ts # "None" THEN obs.ev.thread_ts ELSE obs.ev.ts

\* The reply text _call_agent has just returned is a value of the body.
TextFromBody ==
    obs.answer.kind = "body" =>
        LET rec == IF obs.out.pc = "done" THEN obs.out ELSE listener[obs.h] IN
        rec.resp \in {obs.answer.body.response, obs.answer.body.message,
                      obs.answer.body.text, ""} \ {"absent"}

\* C19 as stated: the handling of an event whose gateway call succeeded ends
\* with exactly one say call, of the gateway's reply text, in the event's
\* thread anchor (thread_ts if the event has one, else ts).
C19_SuccessRepliesOnce ==
    /\ AnchorTaken
    /\ TextFromBody
    /\ (obs.out.pc = "done" /\ obs.out.gw = 1 /\ ~GatewayFailed(obs.out)) =>
          /\ Len(obs.out.says) = 1
          /\ obs.out.says[1].text = obs.out.resp
          /\ obs.out.says[1].thread_ts = obs.out.thread_ts

\* C19 amended: when the gateway call succeeds with a reply text that is not
\* empty, the first say call carries that text in the event's thread anchor
\* (thread_ts if the event has one, else ts), and nothing else is said unless
\* that call fails, and then the apology is, in the same anchor; when the
\* reply text is empty nothing is said.
C19_NonEmptyReplySaidFirst ==
    /\ AnchorTaken
    /\ TextFromBody
    /\ (obs.out.pc = "done" /\ obs.out.gw = 1 /\ ~GatewayFailed(obs.out)) =>
          LET out == obs.out IN
          IF out.resp = ""
          THEN out.says = <<>>
          ELSE /\ Len(out.says) >= 1
               /\ out.says[1].text = out.resp
               /\ out.says[1].thread_ts = out.thread_ts
               /\ out.says[1].ok => Len(out.says) = 1
               /\ ~out.says[1].ok =>
                     /\ Len(out.says) = 2
                     /\ out.says[2].text = Apology
                     /\ out.says[2].thread_ts = out.thread_ts

\* C19 witness: the gateway's text R has been said, once, in the thread T1.
C19_Witness ==
    /\ obs.out.pc = "done" /\ obs.out.gw = 1 /\ ~GatewayFailed(obs.out)
    /\ obs.out.says = <<[text |-> "R", thread_ts |-> "T1", ok |-> TRUE]>>

\* A text made of mentions of the bot and blanks alone.
BareMention(text) ==
    \A i \in 1..Len(text) : text[i] \in {Sp, MentionTok(BotUser)}

\* C20: an app_mention event whose text is made of the bot's mention tokens
\* and blanks alone is taken in with that text, no step up to the cleaning
\* of the text calls the gateway or says anything, and the cleaning ends the
\* handling: no gateway call, no reply, no error.
C20_BareMentionDropped ==
    [][\A h \in Listeners :
          /\ (listener[h].pc = "idle" /\ listener'[h].pc \in {"auth", "clean"}
                /\ obs'.ev.type = "app_mention") =>
                (listener'[h].mention /\ listener'[h].text = obs'.ev.text
                   /\ listener'[h].gw = 0 /\ listener'[h].says = <<>>)
          /\ (listener[h].pc = "auth" /\ listener'[h] # listener[h]
                /\ listener[h].mention /\ BareMention(listener[h].text)) =>
                \/ listener'[h] = [listener[h] EXCEPT !.pc = "clean"]
                \/ /\ listener'[h].pc = "idle" /\ obs'.h = h
                   /\ obs'.out.pc = "done"
                   /\ obs'.out.gw = 0 /\ obs'.out.says = <<>>
          /\ (listener[h].pc = "clean" /\ listener'[h] # listener[h]
                /\ listener[h].mention /\ BareMention(listener[h].text)) =>
                /\ listener'[h].pc = "idle" /\ obs'.h = h
                /\ obs'.out.pc = "done" /\ obs'.out.log = {}
                /\ obs'.out.gw = 0 /\ obs'.out.says = <<>>]_vars

\* C20 witness: the handling of a mention has ended at the cleaning of its
\* text, which left nothing.
C20_Witness ==
    /\ obs.out.pc = "done" /\ obs.out.mention /\ obs.out.text = <<>>
    /\ obs.out.gw = 0 /\ obs.out.says = <<>> /\ obs.out.log = {}

\* ------------------------------------------------ claims on event dispatch
\* The event carries a subtype or a bot_id.
Flagged(ev) == ev.subtype \/ ev.bot_id

\* The connection that was handed the event of the last delivery.
ObsObj == IF obs.out.pc = "done" THEN obs.out.obj ELSE listener[obs.h].obj

\* The handling of the delivered event has ended at once: no gateway call,
\* nothing said, nothing logged.
Dropped ==
    /\ obs.out.pc = "done" /\ listener[obs.h].pc = "idle"
    /\ obs.out.gw = 0 /\ obs.out.says = <<>> /\ obs.out.log = {}

\* The delivered event is in _handle_message, on its way to the gateway.
TakenIn ==
    /\ obs.out = NoOut
    /\ listener[obs.h].pc \in {"auth", "clean"}
    /\ listener[obs.h].text = obs.ev.text
    /\ listener[obs.h].gw = 0 /\ listener[obs.h].says = <<>>

\* C21 as stated: an event delivered with a subtype or a bot_id, as a message
\* or as an app_mention, is dropped at once: no gateway call and no reply.
C21_FlaggedEventsDropped ==
    (obs.ev # NoEvent /\ Flagged(obs.ev)) => Dropped

\* The event is a direct message, or a mention of the bot, or is in the
\* channel the connection o is configured with.
Applicable(o, ev) ==
    \/ ev.channel_type = "im"
    \/ ev.type = "app_mention"
    \/ objs[o].cfg.channel_id # "None" /\ ev.channel = objs[o].cfg.channel_id

\* C22: an event delivered with no subtype and no bot_id goes to
\* _handle_message, on its way to the gateway, exactly when it is a direct
\* message, an app_mention, or a message in the configured channel; any other
\* (every channel message when no channel is configured) is dropped at once,
\* with no gateway call and no reply.
C22_DispatchByApplicability ==
    (obs.ev # NoEvent /\ ~Flagged(obs.ev)) =>
        IF Applicable(ObsObj, obs.ev) THEN TakenIn ELSE Dropped

\* C22 witness: a message in the configured channel CH1 has been taken in.
C22_Witness ==
    /\ obs.ev # NoEvent /\ ~Flagged(obs.ev)
    /\ obs.ev.type = "message" /\ obs.ev.channel = "CH1"
    /\ objs[ObsObj].cfg.channel_id = "CH1"
    /\ TakenIn

\* ------------------------------------------------ claims on the gateway call
\* The handling in which the last step was made.
ObsRec == IF obs.out.pc = "done" THEN obs.out ELSE listener[obs.h]

\* The value of the first of the keys response, message, text that the body
\* has.
FirstPresent(body) ==
    IF body.response # "absent" THEN body.response
    ELSE IF body.message # "absent" THEN body.message
    ELSE body.text

\* The body has none of the keys response, message, text.
NoKey(body) ==
    body.response = "absent" /\ body.message = "absent" /\ body.text = "absent"

\* C23 as stated: when the gateway answers with a JSON object that has one of
\* the keys response, message, text, the reply text _call_agent returns is
\* the value of the first of them that is present, the empty string included.
C23_FirstPresentKey ==
    (obs.answer.kind = "body" /\ ~NoKey(obs.answer.body)) =>
        /\ ~GatewayFailed(ObsRec)
        /\ ObsRec.resp = FirstPresent(obs.answer.body)

\* C24 as stated: _call_agent raises, and returns no reply text, when the
\* POST times out, comes back with an error status or with a body that does
\* not parse, and when the body has none of the keys response, message, text:
\* the handler is then in the inner except block, the failure logged.
C24_GatewayErrors ==
    (\/ obs.answer.kind \in Failures
     \/ obs.answer.kind = "body" /\ NoKey(obs.answer.body)) =>
        /\ listener[obs.h].pc = "apology"
        /\ GatewayFailed(listener[obs.h])
        /\ listener[obs.h].resp = ""

\* ------------------------------------------------- claims on the identity
\* C25 as stated: the connection that start() has set running has no
\* bot_user_id until an event is handled; an event taken in calls auth.test
\* only when none is cached; and auth.test returns a user_id only to a
\* connection that has none yet, so that over the life of a connection at
\* most one auth.test call succeeds, whatever the number of listener threads
\* handling events.
C25_IdentityResolvedOnce ==
    [][\A h \in Listeners :
          /\ (listener[h].pc = "idle" /\ listener'[h].pc \in {"auth", "clean"}) =>
                (listener'[h].pc = "auth") =
                    (objs[listener'[h].obj].bot_user_id = "None")
          /\ (listener[h].pc = "auth" /\ listener'[h].pc = "clean") =>
                /\ objs[listener[h].obj].bot_user_id = "None"
                /\ objs'[listener[h].obj].bot_user_id = BotUser]_vars

\* ------------------------------------------------ claims on concurrent calls
\* The request thread t is inside a rewrite of the Store file: it has opened
\* the file for writing (truncating it) and has not yet written and closed
\* it.
Rewriting(t) == call[t].op \in {"create", "delete"} /\ call[t].pc = "f_dump"

\* C26 as stated: rewrites of the Store file never overlap: two create or
\* delete calls for different ids are never both inside a rewrite of the
\* file; and the file a rewrite that did not fail leaves is a mapping that
\* parses.
C26_RewritesNeverOverlap ==
    /\ \A t, u \in Threads :
          (t # u /\ call[t].id # call[u].id) => ~(Rewriting(t) /\ Rewriting(u))
    /\ (ret.op \in {"create", "delete"} /\ ret.res = "ok"
          /\ ret.logged \cap {"created", "deleted"} # {}
          /\ "save_error" \notin ret.logged
          /\ configs # EmptyMap) =>
             file.state # "bad"

\* ------------------------------------------------ claims on stop and delete
\* The workers of the BotInstance o that have yet to set its running flag.
MarkersOf(o) ==
    {w \in Workers : workers[w].obj = o /\ workers[w].pc \in {"spawned", "made"}}

\* C27 as stated: with one call at a time (so that every start has returned
\* before a stop is called, and none is called before the stop returns), when
\* stop(id) returns without error the connection has no live worker, is
\* marked not running, and has no worker left that will mark it running.
C27_StopAfterStartTakesEffect ==
    (ret.op = "stop" /\ ret.res = "ok" /\ ret.id \in DOMAIN bots) =>
        LET o == bots[ret.id] IN
        /\ LiveWorkersOf(o) = {}
        /\ ~objs[o].running
        /\ MarkersOf(o) = {}

\* The BotInstances the registry holds.
Registered == {bots[id] : id \in DOMAIN bots}

\* C28 as stated: with one call at a time, when delete(id) has returned
\* without error every live worker (spawned, connecting or serving, its
\* handler not closed) is the worker of a BotInstance in the registry: the
\* deleted connection has left none behind.
C28_NoOrphanWorkers ==
    (ret.op = "delete" /\ ret.res = "ok") =>
        \A w \in Workers : Live(w) => workers[w].obj \in Registered

\* The create call of thread u, given the id explicitly, has found it
\* unregistered and has not yet registered it.
PassedCheck(u, id) ==
    At(u, "create", "c_reg") /\ ~call[u].auto /\ call[u].id = id

\* C29 as stated: of two create calls given the same id, one alone gets past
\* the membership test: a create that makes the test while the other call
\* has passed it for the same id raises AlreadyExists and constructs nothing;
\* and the BotInstance a create registers takes the place of no other.
C29_OneCreateWins ==
    [][\A t, u \in Threads :
          /\ (t # u /\ At(t, "create", "c_chk") /\ ~call[t].auto /\ Steps(t)
                /\ PassedCheck(u, call[t].id)) =>
                   /\ call'[t].op = "idle"
                   /\ ret'.t = t /\ ret'.res = "AlreadyExists"
                   /\ objs' = objs
          /\ (At(t, "create", "c_reg") /\ ~call[t].auto /\ Steps(t)) =>
                call[t].id \notin DOMAIN bots]_vars

\* C30 as stated: delete_bot never raises: whatever other calls run at the
\* same time (the registry loses an id only through a delete of that id), a
\* delete call returns normally.
C30_DeleteNeverRaises ==
    ret.op = "delete" => ret.res = "ok"

\* ------------------------------------------- claims on registry iteration
\* C31 as stated: start_all and stop_all return without raising, whatever
\* create and delete calls of another request thread register or remove
\* while the loop over the registry is under way.
C31_IterationNeverRaises ==
    ret.op \in Bulk => ret.res = "ok"

\* ------------------------------------------------- claims on the apology
\* The handling rec has said the apology, or is about to.
Apologizes(rec) ==
    \/ rec.pc = "apology"
    \/ \E i \in 1..Len(rec.says) : rec.says[i].text = Apology

\* C32 as stated: the apology is said for an event only when the event's
\* _call_agent call raised: a handling whose gateway call returned a reply
\* text neither says the apology nor gets to the except block that says it,
\* whether or not the say call of the reply went through.
C32_ApologyOnlyAfterGatewayFailure ==
    /\ \A h \in Listeners :
          Apologizes(listener[h]) => GatewayFailed(listener[h])
    /\ (obs.out.pc = "done" /\ Apologizes(obs.out)) => GatewayFailed(obs.out)

\* ---------------------------------------------- claims on the control plane
\* The POST /bots request of thread t is answered with an error at this step.
PostFails(t) ==
    /\ call[t].before.taken /\ call'[t].op = "idle"
    /\ ret'.t = t /\ ret'.res # "ok"

\* C33 as stated: a POST /bots request that is answered with an error (a
\* required field missing, the id registered already, or the start_bot of
\* auto_start raising) leaves the registry and the Store mapping as the
\* request found them, no other request being served meanwhile.
C33_FailedCreateCreatesNothing ==
    [][/\ ret'.res = "ValidationError" =>
             UNCHANGED <<bots, objs, workers, configs, file>>
       /\ \A t \in Threads :
             PostFails(t) =>
                /\ bots' = call[t].before.bots
                /\ configs' = call[t].before.configs]_vars

====
